---- MODULE Spec2Model ----
(***************************************************************************)
(* Model of main.py: one synchronous run that fetches the league page,     *)
(* extracts the raw fixtures, keeps those of the configured team, builds   *)
(* one calendar event per fixture and writes the calendar file.            *)
(*                                                                         *)
(* Python values:                                                          *)
(*   - an optional value (None or a value) is a set with at most one       *)
(*     element: None == {} and Some(x) == {x};                             *)
(*   - a date text is the record of its three whitespace-separated tokens, *)
(*     [wd, d, mon], the day being its sequence of decimal digits;         *)
(*   - a time text is [h, m], each a sequence of decimal digits;           *)
(*   - a formatted string f"{a} vs {b}" is the tuple <<a, " vs ", b>>.     *)
(***************************************************************************)
EXTENDS Integers, Sequences, FiniteSets, TLC

\* Largest number of <li> items of the fixture container.
MaxItems == 2

---------------------------------------------------------------------------
(* Optional values *)

None == {}

Some(x) == {x}

Get(o) == CHOOSE x \in o : TRUE

---------------------------------------------------------------------------
(* The outcome of a call: the value it returns, or the exception it raises *)

Return(v) == [raised |-> "", result |-> v]

Raise(e) == [raised |-> e]

Raised(r) == r.raised # ""

---------------------------------------------------------------------------
(* datetime.strptime(f"{date} {time}", "%A %d %B %H:%M") and datetime      *)
(* arithmetic                                                              *)

WeekdayNames == <<"Monday", "Tuesday", "Wednesday", "Thursday", "Friday",
                  "Saturday", "Sunday">>

WeekdayNamesLower == <<"monday", "tuesday", "wednesday", "thursday", "friday",
                       "saturday", "sunday">>

MonthNames == <<"January", "February", "March", "April", "May", "June", "July",
                "August", "September", "October", "November", "December">>

MonthNamesLower == <<"january", "february", "march", "april", "may", "june",
                     "july", "august", "september", "october", "november",
                     "december">>

\* The position of a name in a table of names (matched as written or in
\* lower case: the directive's pattern ignores case), 0 when it is not there.
NameIndex(tok, names, lower) ==
    IF \E i \in 1..Len(names) : tok \in {names[i], lower[i]}
    THEN CHOOSE i \in 1..Len(names) : tok \in {names[i], lower[i]}
    ELSE 0

\* The number a sequence of one or two decimal digits denotes, -1 for any
\* other sequence (a numeric directive takes at most two digits).
DigitsValue(ds) ==
    IF Len(ds) = 1 THEN ds[1]
    ELSE IF Len(ds) = 2 THEN 10 * ds[1] + ds[2]
    ELSE -1

\* The year a text without a year is given (so "29 February" is out of
\* range: 1900 is no leap year).
DefaultYear == 1900

IsLeap(y) == (y % 4 = 0) /\ ((y % 100 # 0) \/ (y % 400 = 0))

DaysInMonth(y, m) ==
    IF m = 2 THEN (IF IsLeap(y) THEN 29 ELSE 28)
    ELSE IF m \in {4, 6, 9, 11} THEN 30
    ELSE 31

\* MatchFixture.__parse_datetime: date and time are the optional texts of the
\* raw fixture. The weekday token must be a weekday name but takes no part in
\* the result: the timestamp is built from year, month, day, hour and minute.
parse_datetime(date, time) ==
    IF date = None \/ time = None THEN Raise("ValueError")
    ELSE LET dt  == Get(date)
             tm  == Get(time)
             wd  == NameIndex(dt.wd, WeekdayNames, WeekdayNamesLower)
             mon == NameIndex(dt.mon, MonthNames, MonthNamesLower)
             day == DigitsValue(dt.d)
             hh  == DigitsValue(tm.h)
             mm  == DigitsValue(tm.m)
         IN IF /\ wd # 0
               /\ mon # 0
               /\ day \in 1..31
               /\ hh \in 0..23
               /\ mm \in 0..59
               /\ day <= DaysInMonth(DefaultYear, mon)
            THEN Return([year |-> DefaultYear, month |-> mon, day |-> day,
                         hour |-> hh, minute |-> mm])
            ELSE Raise("ValueError")

\* The number of minutes of an event.
EventMinutes == 30

\* datetime + timedelta(minutes=n), for 0 <= n < 1440.
AddMinutes(dt, n) ==
    LET total   == dt.hour * 60 + dt.minute + n
        carry   == total \div 1440
        inDay   == total % 1440
        lastDay == DaysInMonth(dt.year, dt.month)
        day1    == dt.day + carry
        day2    == IF day1 > lastDay THEN day1 - lastDay ELSE day1
        mon1    == IF day1 > lastDay THEN dt.month + 1 ELSE dt.month
        mon2    == IF mon1 > 12 THEN 1 ELSE mon1
        year2   == IF mon1 > 12 THEN dt.year + 1 ELSE dt.year
    IN [year |-> year2, month |-> mon2, day |-> day2,
        hour |-> inDay \div 60, minute |-> inDay % 60]

RECURSIVE DaysBeforeMonth(_, _)
DaysBeforeMonth(y, m) ==
    IF m = 1 THEN 0 ELSE DaysBeforeMonth(y, m - 1) + DaysInMonth(y, m - 1)

\* datetime.weekday() of a timestamp of the default year: 1 = Monday ..
\* 7 = Sunday (1 January 1900 is a Monday).
Weekday(dt) == ((DaysBeforeMonth(dt.year, dt.month) + dt.day - 1) % 7) + 1

\* datetime.strftime('%m/%d/%Y %I:%M %p')
strftime(dt) ==
    <<dt.month, "/", dt.day, "/", dt.year, " ",
      IF dt.hour % 12 = 0 THEN 12 ELSE dt.hour % 12, ":", dt.minute, " ",
      IF dt.hour < 12 THEN "AM" ELSE "PM">>

---------------------------------------------------------------------------
(* MatchFixture *)

\* MatchFixture.__init__: the fixture, or the failure of the parse.
MatchFixture(team, opponent, home, date, time) ==
    LET parsed == parse_datetime(date, time)
    IN IF Raised(parsed) THEN parsed
       ELSE Return([team |-> team, opponent |-> opponent, home |-> home,
                    datetime |-> parsed.result])

get_datetime(f) == f.datetime

\* get_title with the test of home inverted.
get_title_inverted(f) ==
    IF ~f.home THEN <<f.team, " vs ", f.opponent>>
    ELSE <<f.opponent, " vs ", f.team>>

\* MatchFixture.get_title
get_title(f) ==
    IF f.home THEN <<f.team, " vs ", f.opponent>>
    ELSE <<f.opponent, " vs ", f.team>>

\* MatchFixture.__str__
to_str(f) == <<get_title(f), " on ", strftime(f.datetime)>>

---------------------------------------------------------------------------
(* ManVFatConnector: extraction of the raw fixtures from the page *)

\* An <li> of the page is the record of what the finds of the loop body
\* return: h4 (the date label), team_div and opponent_div (each with the
\* result of its own find('span')), and schedule (its own .string and its
\* match-time spans). An element is a record with its .string.

\* RawFixtureOf taking the first time candidate instead of the second.
RawFixtureOf_first_candidate(li) ==
    LET date_element     == li.h4
        team_element     == IF li.team_div # None
                            THEN Get(li.team_div).span ELSE None
        opponent_element == IF li.opponent_div # None
                            THEN Get(li.opponent_div).span ELSE None
        time_element     ==
            IF li.schedule # None
            THEN LET match_time_elements == Get(li.schedule).match_times
                 IN IF Len(match_time_elements) >= 2
                    THEN Some(match_time_elements[1])
                    ELSE li.schedule
            ELSE None
    IN IF \/ team_element = None
          \/ date_element = None
          \/ opponent_element = None
          \/ time_element = None
       THEN Raise("AttributeError")
       ELSE Return([team     |-> Get(team_element).string,
                    date     |-> Get(date_element).string,
                    opponent |-> Get(opponent_element).string,
                    time     |-> Get(time_element).string])

\* Lines 102-119: the raw fixture of one <li>, or the failure of the
\* dereference of a find that returned None.
RawFixtureOf(li) ==
    LET date_element     == li.h4
        team_element     == IF li.team_div # None
                            THEN Get(li.team_div).span ELSE None
        opponent_element == IF li.opponent_div # None
                            THEN Get(li.opponent_div).span ELSE None
        time_element     ==
            IF li.schedule # None
            THEN LET match_time_elements == Get(li.schedule).match_times
                 IN IF Len(match_time_elements) >= 2
                    THEN Some(match_time_elements[2])
                    ELSE li.schedule
            ELSE None
    IN IF \/ team_element = None
          \/ date_element = None
          \/ opponent_element = None
          \/ time_element = None
       THEN Raise("AttributeError")
       ELSE Return([team     |-> Get(team_element).string,
                    date     |-> Get(date_element).string,
                    opponent |-> Get(opponent_element).string,
                    time     |-> Get(time_element).string])

\* The loop of lines 100-120 skipping an item that lacks a sub-element.
RECURSIVE ExtractFrom_skip_malformed(_, _, _)
ExtractFrom_skip_malformed(lis, i, match_fixtures) ==
    IF i > Len(lis) THEN Return(match_fixtures)
    ELSE LET li == lis[i]
             whole == /\ li.h4 # None
                      /\ li.team_div # None
                      /\ li.opponent_div # None
                      /\ li.schedule # None
                      /\ Get(li.team_div).span # None
                      /\ Get(li.opponent_div).span # None
         IN IF whole
            THEN ExtractFrom_skip_malformed(
                     lis, i + 1,
                     Append(match_fixtures,
                            [team     |-> Get(Get(li.team_div).span).string,
                             date     |-> Get(li.h4).string,
                             opponent |-> Get(Get(li.opponent_div).span).string,
                             time     |-> IF Len(Get(li.schedule).match_times) >= 2
                                          THEN Get(li.schedule).match_times[2].string
                                          ELSE Get(li.schedule).string]))
            ELSE ExtractFrom_skip_malformed(lis, i + 1, match_fixtures)

\* The loop of lines 100-120 from item i on, match_fixtures being the list
\* built so far: the whole list, or the failure that ends the loop.
RECURSIVE ExtractFrom(_, _, _)
ExtractFrom(lis, i, match_fixtures) ==
    IF i > Len(lis) THEN Return(match_fixtures)
    ELSE LET match == RawFixtureOf(lis[i])
         IN IF Raised(match) THEN match
            ELSE ExtractFrom(lis, i + 1, Append(match_fixtures, match.result))

\* __get_fixtures without the test of the container: find_all on None.
get_fixtures_unguarded(container) ==
    IF container # None
    THEN ExtractFrom(Get(container), 1, <<>>)
    ELSE Raise("AttributeError")

\* ManVFatConnector.__get_fixtures on the parsed page: container is the
\* result of the find of the div 'upcomingfixtures', None or its <li> items.
get_fixtures(container) ==
    IF container # None
    THEN ExtractFrom(Get(container), 1, <<>>)
    ELSE Return(<<>>)

\* The loop of lines 136-142 from raw fixture i on.
RECURSIVE FilterFrom(_, _, _, _)
FilterFrom(fixtures, i, self_team, team_fixtures) ==
    IF i > Len(fixtures) THEN Return(team_fixtures)
    ELSE LET fixture == fixtures[i]
         IN IF fixture.team = Some(self_team)
            THEN LET match == MatchFixture(fixture.team, fixture.opponent, TRUE,
                                           fixture.date, fixture.time)
                 IN IF Raised(match) THEN match
                    ELSE FilterFrom(fixtures, i + 1, self_team,
                                    Append(team_fixtures, match.result))
            ELSE IF fixture.opponent = Some(self_team)
            THEN LET match == MatchFixture(fixture.team, fixture.opponent, FALSE,
                                           fixture.date, fixture.time)
                 IN IF Raised(match) THEN match
                    ELSE FilterFrom(fixtures, i + 1, self_team,
                                    Append(team_fixtures, match.result))
            ELSE FilterFrom(fixtures, i + 1, self_team, team_fixtures)

\* get_team_fixtures passing home = True in both branches.
RECURSIVE FilterFrom_always_home(_, _, _, _)
FilterFrom_always_home(fixtures, i, self_team, team_fixtures) ==
    IF i > Len(fixtures) THEN Return(team_fixtures)
    ELSE LET fixture == fixtures[i]
         IN IF fixture.team = Some(self_team) \/ fixture.opponent = Some(self_team)
            THEN LET match == MatchFixture(fixture.team, fixture.opponent, TRUE,
                                           fixture.date, fixture.time)
                 IN IF Raised(match) THEN match
                    ELSE FilterFrom_always_home(fixtures, i + 1, self_team,
                                                Append(team_fixtures, match.result))
            ELSE FilterFrom_always_home(fixtures, i + 1, self_team, team_fixtures)

get_team_fixtures_always_home(fixtures, self_team) ==
    FilterFrom_always_home(fixtures, 1, self_team, <<>>)

\* get_team_fixtures building the MatchFixture of a raw fixture before it
\* tests the slots.
RECURSIVE FilterFrom_parse_first(_, _, _, _)
FilterFrom_parse_first(fixtures, i, self_team, team_fixtures) ==
    IF i > Len(fixtures) THEN Return(team_fixtures)
    ELSE LET fixture == fixtures[i]
             match   == MatchFixture(fixture.team, fixture.opponent,
                                     fixture.team = Some(self_team),
                                     fixture.date, fixture.time)
         IN IF Raised(match) THEN match
            ELSE IF fixture.team = Some(self_team)
                    \/ fixture.opponent = Some(self_team)
            THEN FilterFrom_parse_first(fixtures, i + 1, self_team,
                                        Append(team_fixtures, match.result))
            ELSE FilterFrom_parse_first(fixtures, i + 1, self_team, team_fixtures)

get_team_fixtures_parse_first(fixtures, self_team) ==
    FilterFrom_parse_first(fixtures, 1, self_team, <<>>)

\* ManVFatConnector.get_team_fixtures on the raw fixtures of the page.
get_team_fixtures(fixtures, self_team) == FilterFrom(fixtures, 1, self_team, <<>>)

---------------------------------------------------------------------------
(* ManVFatCalender and the calendar file *)

\* ManVFatCalender.__init__
ManVFatCalender(team_name, location_text) ==
    [prodid   |-> <<"-//Man V Fat Calender Oldbury - ", team_name,
                    "//manvfatfootball.org//">>,
     version  |-> "2.0",
     location |-> location_text,
     events   |-> <<>>]

\* Lines 175-179: the event of a fixture, before add_event.
NewEvent(fixture) ==
    [name        |-> get_title(fixture),
     description |-> to_str(fixture),
     dtstart     |-> get_datetime(fixture),
     dtend       |-> AddMinutes(get_datetime(fixture), EventMinutes)]

\* add_event giving every event one uid, drawn once for the calendar.
add_event_shared_uid(calendar, event, uid) ==
    [calendar EXCEPT !.events =
        Append(@, [name        |-> event.name,
                   description |-> event.description,
                   dtstart     |-> event.dtstart,
                   dtend       |-> event.dtend,
                   uid         |-> 0,
                   location    |-> calendar.location])]

\* ManVFatCalender.add_event, uid being the value of uuid.uuid4(). An Event
\* is a component, and a component is true whatever it holds.
add_event(calendar, event, uid) ==
    [calendar EXCEPT !.events =
        Append(@, [name        |-> event.name,
                   description |-> event.description,
                   dtstart     |-> event.dtstart,
                   dtend       |-> event.dtend,
                   uid         |-> uid,
                   location    |-> calendar.location])]

\* The bytes of a calendar file: the header (product id and version), the
\* events written in full, and whether the closing line of the document is
\* there. A file just opened for writing is empty.
EmptyBytes == [header |-> None, events |-> <<>>, end |-> FALSE]

\* Calendar.to_ical
to_ical(calendar) ==
    [header |-> Some([prodid |-> calendar.prodid, version |-> calendar.version]),
     events |-> calendar.events,
     end    |-> TRUE]

\* What a write of bytes that fails partway can leave in the file: nothing,
\* or the header and the first k events.
Truncations(bytes) ==
    {EmptyBytes} \cup
    {[header |-> bytes.header, events |-> SubSeq(bytes.events, 1, k),
      end |-> FALSE] : k \in 0..Len(bytes.events)}

---------------------------------------------------------------------------
(* The inputs of a run *)

Location == "Portway Lifestyle Centre, Oldbury Birmingham, B69 1HE"

\* The values of the environment variable TEAM.
ConfigTeams == {"Oldbury", "Rivals FC"}

Element(string) == Some([string |-> string])

TeamDiv(span) == Some([span |-> span])

Schedule(string, times) ==
    Some([string      |-> string,
          match_times |-> [i \in 1..Len(times) |-> [string |-> times[i]]]])

Li(h4, team_div, opponent_div, schedule) ==
    [h4 |-> h4, team_div |-> team_div, opponent_div |-> opponent_div,
     schedule |-> schedule]

Named(name) == TeamDiv(Element(Some(name)))

Tuesday14May == Some([wd |-> "Tuesday", d |-> <<1, 4>>, mon |-> "May"])

Tuesday31December == Some([wd |-> "Tuesday", d |-> <<3, 1>>, mon |-> "December"])

friday4may == Some([wd |-> "friday", d |-> <<4>>, mon |-> "may"])

Tuesday31April == Some([wd |-> "Tuesday", d |-> <<3, 1>>, mon |-> "April"])

T1800 == Some([h |-> <<1, 8>>, m |-> <<0, 0>>])

T1945 == Some([h |-> <<1, 9>>, m |-> <<4, 5>>])

T2345 == Some([h |-> <<2, 3>>, m |-> <<4, 5>>])

\* Two candidates: the schedule's own .string is None, it has two children.
TwoTimes == Schedule(None, <<T1800, T1945>>)

\* The items of a page: well-formed ones with the configured team in the
\* team slot, in the opponent slot, in both and in neither, with dates and
\* times that parse and that do not, with one to three time candidates, and
\* ones that lack a sub-element.
Items ==
    \* the slot arrangements
    {Li(Element(Tuesday14May), Named(p[1]), Named(p[2]), TwoTimes) :
        p \in {<<"Oldbury", "Rivals FC">>, <<"Rivals FC", "Oldbury">>,
               <<"Oldbury", "Oldbury">>}}
    \cup
    \* other date texts, and a third team's fixture whose date does not parse
    {Li(Element(friday4may), Named("Oldbury"), Named("Rivals FC"), TwoTimes),
     Li(Element(Tuesday31April), Named("Oldbury"), Named("Rivals FC"), TwoTimes),
     Li(Element(Tuesday31April), Named("oldbury"), Named("Villa"), TwoTimes)}
    \cup
    \* other schedules; the .string of a schedule with one candidate is the
    \* candidate's when the candidate is its only child, None otherwise
    {Li(Element(Tuesday31December), Named("Oldbury"), Named("Rivals FC"), s) :
        s \in {Schedule(None, <<T1800, T2345>>),
               Schedule(None, <<T1800, T1945, T2345>>),
               Schedule(T1945, <<T1945>>),
               Schedule(None, <<T1945>>)}}
    \cup
    \* a sub-element missing
    {Li(None, Named("Oldbury"), Named("Rivals FC"), TwoTimes),
     Li(Element(Tuesday14May), None, Named("Oldbury"), TwoTimes),
     Li(Element(Tuesday14May), Named("Oldbury"), TeamDiv(None), TwoTimes),
     Li(Element(Tuesday14May), Named("Oldbury"), Named("Rivals FC"), None),
     Li(None, Named("oldbury"), Named("Villa"), TwoTimes)}

RECURSIVE SeqsUpTo(_, _)
SeqsUpTo(S, n) ==
    IF n = 0 THEN {<<>>}
    ELSE LET shorter == SeqsUpTo(S, n - 1)
         IN shorter \cup {Append(q, x) : q \in shorter, x \in S}

\* The responses of the site: a failure, a page without the container, a
\* page whose container holds up to MaxItems items.
Responses ==
    {[ok |-> FALSE, container |-> None], [ok |-> TRUE, container |-> None]}
    \cup {[ok |-> TRUE, container |-> Some(lis)] : lis \in SeqsUpTo(Items, MaxItems)}

\* The calendar file an earlier run left.
OldBytes ==
    to_ical(add_event(ManVFatCalender("Oldbury", Location),
                      NewEvent([team |-> Some("Oldbury"), opponent |-> Some("Villa"),
                                home |-> TRUE,
                                datetime |-> [year |-> DefaultYear, month |-> 1,
                                              day |-> 1, hour |-> 0, minute |-> 0]]),
                      0))

\* The export directory and the calendar file before the run.
Disks ==
    {[dir |-> FALSE, file |-> None], [dir |-> TRUE, file |-> Some(OldBytes)]}

\* The values uuid.uuid4() draws from; a draw gives a value not drawn before.
UUIDs == 1..MaxItems

---------------------------------------------------------------------------
(* The run *)

VARIABLES
    team,            \* ManVFatConnector.team, the environment's TEAM
    response,        \* what the site answers to the request
    before,          \* the export directory and the calendar file before the run
    pc,              \* where the run is
    raised,          \* the exception that ended the run, "" while there is none
    match_fixtures,  \* the raw fixtures __get_fixtures returned
    team_fixtures,   \* the fixtures get_team_fixtures returned
    cal,             \* the calendar export_to_ical builds
    idx,             \* the position of export_to_ical's loop in the fixtures
    issued,          \* the values uuid.uuid4() has given
    dir_exists,      \* whether the export directory exists
    file             \* the bytes of the calendar file, None when there is none

vars == <<team, response, before, pc, raised, match_fixtures, team_fixtures,
          cal, idx, issued, dir_exists, file>>

\* The environment holds URL, TEAM and ExportPath: the run starts at line 190.
Init ==
    /\ team \in ConfigTeams
    /\ response \in Responses
    /\ before \in Disks
    /\ pc = "get_page_content"
    /\ raised = ""
    /\ match_fixtures = <<>>
    /\ team_fixtures = <<>>
    /\ cal = ManVFatCalender(team, Location)
    /\ idx = 1
    /\ issued = {}
    /\ dir_exists = before.dir
    /\ file = before.file

Running(at) == pc = at /\ raised = ""

\* ManVFatConnector.get_page_content: the request, and raise_for_status.
GetPageContent ==
    /\ Running("get_page_content")
    /\ IF response.ok
       THEN pc' = "get_fixtures" /\ raised' = raised
       ELSE pc' = pc /\ raised' = "HTTPError"
    /\ UNCHANGED <<team, response, before, match_fixtures, team_fixtures, cal,
                   idx, issued, dir_exists, file>>

\* ManVFatConnector.__get_fixtures, after the page is fetched.
GetFixtures ==
    /\ Running("get_fixtures")
    /\ LET r == get_fixtures(response.container)
       IN IF Raised(r)
          THEN pc' = pc /\ raised' = r.raised /\ match_fixtures' = match_fixtures
          ELSE pc' = "get_team_fixtures" /\ raised' = raised
               /\ match_fixtures' = r.result
    /\ UNCHANGED <<team, response, before, team_fixtures, cal, idx, issued,
                   dir_exists, file>>

\* get_team_fixtures run after the export directory is made and the file is
\* opened for writing.
GetTeamFixtures_file_opened_first ==
    /\ Running("get_team_fixtures")
    /\ LET r == get_team_fixtures(match_fixtures, team)
       IN IF Raised(r)
          THEN pc' = pc /\ raised' = r.raised /\ team_fixtures' = team_fixtures
          ELSE pc' = "export_to_ical" /\ raised' = raised
               /\ team_fixtures' = r.result
    /\ dir_exists' = TRUE
    /\ file' = Some(EmptyBytes)
    /\ UNCHANGED <<team, response, before, match_fixtures, cal, idx, issued>>

\* ManVFatConnector.get_team_fixtures, after __get_fixtures returned.
GetTeamFixtures ==
    /\ Running("get_team_fixtures")
    /\ LET r == get_team_fixtures(match_fixtures, team)
       IN IF Raised(r)
          THEN pc' = pc /\ raised' = r.raised /\ team_fixtures' = team_fixtures
          ELSE pc' = "export_to_ical" /\ raised' = raised
               /\ team_fixtures' = r.result
    /\ UNCHANGED <<team, response, before, match_fixtures, cal, idx, issued,
                   dir_exists, file>>

\* One turn of the loop of export_to_ical: the event of the next fixture,
\* and add_event with a uid uuid.uuid4() draws.
AddEvent ==
    /\ Running("export_to_ical")
    /\ idx <= Len(team_fixtures)
    /\ \E uid \in UUIDs \ issued :
          /\ cal' = add_event(cal, NewEvent(team_fixtures[idx]), uid)
          /\ issued' = issued \cup {uid}
    /\ idx' = idx + 1
    /\ UNCHANGED <<team, response, before, pc, raised, match_fixtures,
                   team_fixtures, dir_exists, file>>

\* Lines 182-184: the directory is made when it is not there.
MakeDirs ==
    /\ Running("export_to_ical")
    /\ idx > Len(team_fixtures)
    /\ dir_exists' = TRUE
    /\ pc' = "open"
    /\ UNCHANGED <<team, response, before, raised, match_fixtures, team_fixtures,
                   cal, idx, issued, file>>

\* os.makedirs fails.
MakeDirsFails ==
    /\ Running("export_to_ical")
    /\ idx > Len(team_fixtures)
    /\ ~dir_exists
    /\ raised' = "OSError"
    /\ UNCHANGED <<team, response, before, pc, match_fixtures, team_fixtures,
                   cal, idx, issued, dir_exists, file>>

\* export_calendar: open(file_name, 'wb') makes the file, or empties it.
Open ==
    /\ Running("open")
    /\ file' = Some(EmptyBytes)
    /\ pc' = "write"
    /\ UNCHANGED <<team, response, before, raised, match_fixtures, team_fixtures,
                   cal, idx, issued, dir_exists>>

\* open fails.
OpenFails ==
    /\ Running("open")
    /\ raised' = "OSError"
    /\ UNCHANGED <<team, response, before, pc, match_fixtures, team_fixtures,
                   cal, idx, issued, dir_exists, file>>

\* export_calendar: f.write(self.cal.to_ical()), and the file is closed.
Write ==
    /\ Running("write")
    /\ file' = Some(to_ical(cal))
    /\ pc' = "done"
    /\ UNCHANGED <<team, response, before, raised, match_fixtures, team_fixtures,
                   cal, idx, issued, dir_exists>>

\* The write fails partway.
WriteFails ==
    /\ Running("write")
    /\ \E bytes \in Truncations(to_ical(cal)) : file' = Some(bytes)
    /\ raised' = "OSError"
    /\ UNCHANGED <<team, response, before, pc, match_fixtures, team_fixtures,
                   cal, idx, issued, dir_exists>>

Next ==
    \/ GetPageContent
    \/ GetFixtures
    \/ GetTeamFixtures
    \/ AddEvent
    \/ MakeDirs
    \/ MakeDirsFails
    \/ Open
    \/ OpenFails
    \/ Write
    \/ WriteFails

Spec == Init /\ [][Next]_vars

---------------------------------------------------------------------------
(* What the claims speak of *)

\* get_team_fixtures has returned.
Filtered == pc \in {"export_to_ical", "open", "write", "done"}

\* __get_fixtures has returned.
Extracted == Filtered \/ pc = "get_team_fixtures"

\* The raw fixture names the configured team in one of its slots.
Matching(raw) == raw.team = Some(team) \/ raw.opponent = Some(team)

\* The positions, in page order, of the raw fixtures of the configured team.
KeptIndex ==
    SelectSeq([i \in 1..Len(match_fixtures) |-> i],
              LAMBDA i : Matching(match_fixtures[i]))

\* The raw fixture the k-th Fixture comes from.
KeptRaw(k) == match_fixtures[KeptIndex[k]]

\* The items of the fetched page.
PageItems == IF response.container = None THEN <<>> ELSE Get(response.container)

\* The minutes from the start of the default year to a timestamp of that
\* year or the next.
MinutesSince(dt) ==
    ((dt.year - DefaultYear) * 365 + DaysBeforeMonth(dt.year, dt.month)
        + dt.day - 1) * 1440 + dt.hour * 60 + dt.minute

\* C1: every raw fixture whose team field is the configured team gives a
\* Fixture with home = TRUE and the title "{team} vs {opponent}".
C1_TeamSlotIsHome ==
    Filtered =>
        /\ Len(team_fixtures) = Len(KeptIndex)
        /\ \A k \in 1..Len(KeptIndex) :
              KeptRaw(k).team = Some(team) =>
                  /\ team_fixtures[k].home
                  /\ get_title(team_fixtures[k])
                        = <<KeptRaw(k).team, " vs ", KeptRaw(k).opponent>>

C1_Witness ==
    /\ Filtered
    /\ \E k \in 1..Len(KeptIndex) :
          /\ KeptRaw(k).team = Some(team)
          /\ KeptRaw(k).opponent # Some(team)
          /\ k <= Len(team_fixtures)
          /\ team_fixtures[k].home

\* C2 as stated: every raw fixture whose opponent field is the configured
\* team, also one whose team field is the configured team too, gives a
\* Fixture with home = FALSE and the title "{opponent} vs {team}".
C2_OpponentSlotIsAway_AsStated ==
    Filtered =>
        /\ Len(team_fixtures) = Len(KeptIndex)
        /\ \A k \in 1..Len(KeptIndex) :
              KeptRaw(k).opponent = Some(team) =>
                  /\ ~team_fixtures[k].home
                  /\ get_title(team_fixtures[k])
                        = <<KeptRaw(k).opponent, " vs ", KeptRaw(k).team>>

\* C2 as amended: every raw fixture whose opponent field is the configured
\* team and whose team field is not gives a Fixture with home = FALSE and
\* the title "{opponent} vs {team}".
C2_OpponentSlotIsAway ==
    Filtered =>
        /\ Len(team_fixtures) = Len(KeptIndex)
        /\ \A k \in 1..Len(KeptIndex) :
              (KeptRaw(k).opponent = Some(team) /\ KeptRaw(k).team # Some(team)) =>
                  /\ ~team_fixtures[k].home
                  /\ get_title(team_fixtures[k])
                        = <<KeptRaw(k).opponent, " vs ", KeptRaw(k).team>>

C2_Witness ==
    /\ Filtered
    /\ \E k \in 1..Len(KeptIndex) :
          /\ KeptRaw(k).opponent = Some(team)
          /\ KeptRaw(k).team # Some(team)
          /\ k <= Len(team_fixtures)
          /\ ~team_fixtures[k].home

\* C3: a raw fixture that names the configured team in neither slot is left
\* out of the fixtures; it raises nothing, whatever its date and time text
\* (get_team_fixtures fails only on a record of the configured team), and
\* the Fixtures are those of the other records, in their order.
C3_OthersDroppedSilently ==
    /\ (pc = "get_team_fixtures" /\ raised # "") =>
          \E i \in 1..Len(match_fixtures) :
              /\ Matching(match_fixtures[i])
              /\ Raised(parse_datetime(match_fixtures[i].date,
                                       match_fixtures[i].time))
    /\ Filtered =>
          /\ Len(team_fixtures) = Len(KeptIndex)
          /\ \A k \in 1..Len(KeptIndex) :
                /\ team_fixtures[k].team = KeptRaw(k).team
                /\ team_fixtures[k].opponent = KeptRaw(k).opponent
                /\ Matching(team_fixtures[k])

C3_Witness ==
    /\ Filtered
    /\ Len(team_fixtures) >= 1
    /\ \E i \in 1..Len(match_fixtures) :
          /\ ~Matching(match_fixtures[i])
          /\ Raised(parse_datetime(match_fixtures[i].date, match_fixtures[i].time))

\* The item has at least two time candidates.
TwoCandidates(li) ==
    li.schedule # None /\ Len(Get(li.schedule).match_times) >= 2

\* C4: for an item with at least two time candidates the raw fixture's time
\* is the second candidate, and the event of that fixture starts at the
\* second candidate's hour and minute and ends 30 minutes later.
C4_SecondCandidateIsTheTime ==
    Extracted =>
        /\ Len(match_fixtures) = Len(PageItems)
        /\ \A i \in 1..Len(PageItems) :
              TwoCandidates(PageItems[i]) =>
                  match_fixtures[i].time
                      = Get(PageItems[i].schedule).match_times[2].string
        /\ \A k \in 1..Len(cal.events) :
              TwoCandidates(PageItems[KeptIndex[k]]) =>
                  LET second == Get(Get(PageItems[KeptIndex[k]].schedule)
                                        .match_times[2].string)
                      event  == cal.events[k]
                  IN /\ event.dtstart.hour = DigitsValue(second.h)
                     /\ event.dtstart.minute = DigitsValue(second.m)
                     /\ MinutesSince(event.dtend)
                           = MinutesSince(event.dtstart) + 30
        /\ pc = "done" =>
              /\ Get(file).events = cal.events
              /\ Len(cal.events) = Len(KeptIndex)

C4_Witness ==
    /\ pc = "done"
    /\ \E k \in 1..Len(cal.events) :
          LET times == Get(PageItems[KeptIndex[k]].schedule).match_times
          IN /\ Len(times) >= 2
             /\ times[1].string # times[2].string
             /\ Get(file).events[k].dtstart.hour = 19
             /\ Get(file).events[k].dtstart.minute = 45
             /\ Get(file).events[k].dtend.hour = 20
             /\ Get(file).events[k].dtend.minute = 15

\* C5: the timestamp parsed from "<weekday> <day> <month>" and
\* "<hour>:<minute>" has the hour, minute, day and month of the text, and
\* its weekday is the weekday the text names.
C5_ParsedFieldsAreTheText ==
    Filtered =>
        \A k \in 1..Len(team_fixtures) :
            LET date == Get(KeptRaw(k).date)
                time == Get(KeptRaw(k).time)
                dt   == team_fixtures[k].datetime
            IN /\ dt.hour = DigitsValue(time.h)
               /\ dt.minute = DigitsValue(time.m)
               /\ dt.day = DigitsValue(date.d)
               /\ dt.month = NameIndex(date.mon, MonthNames, MonthNamesLower)
               /\ Weekday(dt) = NameIndex(date.wd, WeekdayNames, WeekdayNamesLower)


\* The file holds nothing of this run: it is as it was before the run, or it
\* holds no event.
NothingWritten == file = before.file \/ Get(file).events = <<>>

\* The file holds one event for every raw fixture of the configured team.
EverythingWritten ==
    /\ Extracted
    /\ file # None
    /\ Len(Get(file).events) = Len(KeptIndex)
    /\ \A k \in 1..Len(KeptIndex) :
          /\ k <= Len(team_fixtures)
          /\ Get(file).events[k].name = get_title(team_fixtures[k])

\* A failure of the fetch, of the extraction or of the parse of a date
\* leaves the export directory and the calendar file as they were.
EarlyFailureLeavesDisk ==
    /\ raised \in {"HTTPError", "AttributeError", "ValueError"} =>
          /\ ~Filtered
          /\ dir_exists = before.dir
          /\ file = before.file
    /\ ~Filtered => (dir_exists = before.dir /\ file = before.file)

\* C6 as stated: in every run either every Fixture of the configured team
\* is written to the calendar file or nothing is, and a failure of the
\* fetch, of the extraction or of a date parse leaves the directory and the
\* file as they were.
C6_NoPartialSuccess_AsStated ==
    /\ NothingWritten \/ EverythingWritten
    /\ EarlyFailureLeavesDisk

\* C6 as amended: the same, in every run whose write of the file does not
\* fail partway; when the run ends without a failure every Fixture is in
\* the file.
C6_NoPartialSuccess ==
    /\ ~(pc = "write" /\ raised = "OSError") =>
          (NothingWritten \/ EverythingWritten)
    /\ pc = "done" => (EverythingWritten /\ Get(file).end)
    /\ EarlyFailureLeavesDisk

C6_Witness ==
    /\ raised = "ValueError"
    /\ before.file = Some(OldBytes)
    /\ file = Some(OldBytes)
    /\ \E i \in 1..Len(match_fixtures) :
          /\ Matching(match_fixtures[i])
          /\ ~Raised(parse_datetime(match_fixtures[i].date, match_fixtures[i].time))

\* The page has no fixture container, or a container without items.
EmptyPage == response.ok /\ PageItems = <<>>

\* C7: a page without the container, or with a container without items,
\* gives an empty list of raw fixtures and no error of the extraction or of
\* the filter (only the directory or the file can fail the run), and the
\* run that ends has written a whole calendar file without events.
C7_EmptyPageExportsEmptyCalendar ==
    EmptyPage =>
        /\ raised \in {"", "OSError"}
        /\ raised = "OSError" => pc \in {"export_to_ical", "open", "write"}
        /\ match_fixtures = <<>>
        /\ team_fixtures = <<>>
        /\ pc = "done" =>
              /\ file # None
              /\ Get(file).events = <<>>
              /\ Get(file).header # None
              /\ Get(file).end

C7_Witness ==
    /\ response.ok
    /\ response.container = None
    /\ pc = "done"
    /\ Get(file).events = <<>>
    /\ Get(file).end

\* C8: the title of every fixture lists the home side first and the away
\* side second, the home side being the side listed first on the page (the
\* team slot) and the away side the one listed second (the opponent slot).
C8_HomeSideFirst ==
    Filtered =>
        \A k \in 1..Len(team_fixtures) :
            get_title(team_fixtures[k])
                = <<KeptRaw(k).team, " vs ", KeptRaw(k).opponent>>

\* C9: the calendar holds one event for each fixture the loop has passed,
\* in the order of the fixtures (the order of the items of the page that
\* name the configured team); every event has the title of its fixture as
\* name, its timestamp as start, an end 30 minutes after the start, the
\* location of the calendar, and a uid no other event has.
C9_OneEventPerFixture ==
    Filtered =>
        /\ Len(cal.events) = idx - 1
        /\ Len(cal.events) <= Len(team_fixtures)
        /\ pc # "export_to_ical" => Len(cal.events) = Len(team_fixtures)
        /\ Len(team_fixtures) = Len(KeptIndex)
        /\ \A k \in 1..Len(cal.events) :
              LET event == cal.events[k]
              IN /\ event.name = get_title(team_fixtures[k])
                 /\ event.dtstart = team_fixtures[k].datetime
                 /\ MinutesSince(event.dtend) = MinutesSince(event.dtstart) + 30
                 /\ event.location = Location
                 /\ team_fixtures[k].team = KeptRaw(k).team
                 /\ team_fixtures[k].opponent = KeptRaw(k).opponent
                 /\ \A j \in 1..Len(cal.events) :
                       j # k => cal.events[j].uid # event.uid

C9_Witness ==
    /\ pc = "done"
    /\ Len(cal.events) = 2
    /\ cal.events[1].name # cal.events[2].name
    /\ cal.events[1].uid # cal.events[2].uid
    /\ cal.events[2].dtend.year = DefaultYear + 1

\* The item lacks the date label, the team label, the opponent label or the
\* schedule block.
LacksSubElement(li) ==
    \/ li.h4 = None
    \/ li.team_div = None
    \/ (li.team_div # None /\ Get(li.team_div).span = None)
    \/ li.opponent_div = None
    \/ (li.opponent_div # None /\ Get(li.opponent_div).span = None)
    \/ li.schedule = None

\* C10: when an item of the page lacks a sub-element the extraction raises
\* and the run ends there: no list of raw fixtures is returned, no fixture
\* is built and nothing is written, whichever team the item is about.
C10_MalformedItemAborts ==
    (response.ok /\ \E i \in 1..Len(PageItems) : LacksSubElement(PageItems[i])) =>
        /\ pc \in {"get_page_content", "get_fixtures"}
        /\ raised \in {"", "AttributeError"}
        /\ (pc = "get_fixtures" /\ raised = "") =>
              Raised(get_fixtures(response.container))
        /\ match_fixtures = <<>>
        /\ team_fixtures = <<>>
        /\ cal.events = <<>>
        /\ file = before.file

C10_Witness ==
    /\ raised = "AttributeError"
    /\ Len(PageItems) = 2
    /\ ~LacksSubElement(PageItems[1])
    /\ ~Raised(parse_datetime(Get(PageItems[1].h4).string, T1945))
    /\ Get(Get(PageItems[1].team_div).span).string = Some(team)
    /\ LacksSubElement(PageItems[2])
    /\ PageItems[2].team_div # None
    /\ Get(PageItems[2].team_div).span # None
    /\ Get(Get(PageItems[2].team_div).span).string \notin {Some(t) : t \in ConfigTeams}
    /\ match_fixtures = <<>>

====
